---- MODULE Spec2Model ----
(***************************************************************************)
(* Background task engine of the Fukai backend:                            *)
(*   BackgroundTask / BackgroundTaskService                                *)
(*     (backend/app/shared/background_tasks.py)                            *)
(*   the background crawl runners of CrawlService                          *)
(*     (backend/app/domains/crawler/crawl_service.py)                      *)
(*                                                                         *)
(* One record per BackgroundTask object, the two stores of the service,    *)
(* and one action per handler or per step between two suspension points    *)
(* of a coroutine.  asyncio is single threaded: the code between two       *)
(* awaits is one step.                                                     *)
(*                                                                         *)
(* Crawler of the Fukai backend:                                           *)
(*   BiwaseCrawler (backend/app/services/crawler.py and its twin           *)
(*     backend/app/domains/crawler/crawler.py)                             *)
(* The crawler is synchronous code: one action per request attempt of the  *)
(* retrying fetcher (FetchSpec), one action per stage step of a crawl run  *)
(* (CrawlSpec).  Spec keeps the crawler at rest.                           *)
(*                                                                         *)
(* Spec has the operations of the service with ids that are never drawn    *)
(* twice; IdSpec drops that assumption, ProgressSpec adds callers of        *)
(* update_progress, ShutdownSpec adds a call of shutdown().  SkewSpec puts  *)
(* the service on a host far behind UTC, ThreadSpec splits the sweep into   *)
(* the steps the crawl runners' worker threads interleave with, RunnerSpec  *)
(* runs one crawl under its crawl task, and RerunSpec runs crawl_simple     *)
(* twice on one crawler.                                                    *)
(***************************************************************************)
EXTENDS Integers, Sequences, FiniteSets, TLC

(* ------------------------------ bounds -------------------------------- *)
\* Number of task ids the id generator hands out in one behaviour.
MaxTasks == 2
\* Last instant of the clock (the clock stops there).
MaxTime == 2
\* Scaled-down service limits (100, 1800 s and 50 in __init__).
max_completed_tasks == 1
max_task_age == 1
max_active_tasks == 1

Ids == 1..MaxTasks

\* Largest max_retries a crawler is built with (3 by default).
MaxRetries == 3
\* Largest retry_delay, in seconds (1.0 by default).
MaxRetryDelay == 2
\* Number of calls of the fetcher in one behaviour of FetchSpec.
MaxFetches == 2
\* Number of crawl runs made on one crawler in one behaviour of CrawlSpec.
MaxRuns == 1
\* Number of crawl runs made on one crawler in one behaviour of RerunSpec.
MaxReruns == 2

\* datetime.now() - datetime.utcnow() on the host, in clock units: the crawl
\* runners stamp with now(), everything else with utcnow().
TzOffsets == {0 - 1, 0, 1}

(* ------------------------------ TaskStatus ---------------------------- *)
PENDING == "pending"
RUNNING == "running"
COMPLETED == "completed"
FAILED == "failed"
CANCELLED == "cancelled"

TaskStatus == {PENDING, RUNNING, COMPLETED, FAILED, CANCELLED}
Terminal == {COMPLETED, FAILED, CANCELLED}

VARIABLES
  tasks,              \* id -> the BackgroundTask object registered under it
  active_tasks,       \* keys of BackgroundTaskService.active_tasks
  completed_tasks,    \* keys of completed_tasks, in dict (insertion) order
  evicted,            \* history: ids deleted from completed_tasks by a sweep
  next_id,            \* the next id the generator hands out
  outcome,            \* outcome of the step just taken: what create_task
                      \* returned ("None", "id"), what cancel_task returned
                      \* ("True", "False"), "swept" for a run of
                      \* _cleanup_old_tasks, "progress" for a call of
                      \* update_progress from outside the pipeline,
                      \* "raised" for a sweep that ended in an exception,
                      \* "-" for any other step
  cleanup_scheduled,  \* a sweep scheduled by _move_completed_task is pending
  now,                \* datetime.utcnow()
  tz,                 \* datetime.now() - datetime.utcnow()
  lifecycle,          \* the periodic cleanup loop and the call of shutdown()
  sweep               \* a run of _cleanup_old_tasks that worker threads
                      \* interleave with: position, locals, dict iterator

vars == <<tasks, active_tasks, completed_tasks, evicted, next_id, outcome,
          cleanup_scheduled, now, tz, lifecycle, sweep>>

VARIABLES
  config,             \* the crawler's max_retries and retry_delay
  stats,              \* BiwaseCrawler.stats
  fetch,              \* the current call of _make_request_with_retry
  site,               \* the website: what each page links to
  crawl,              \* the current call of crawl_simple: position, locals
  results             \* the results crawl_simple has returned, in order

cvars == <<config, stats, fetch, site, crawl, results>>

allvars == <<vars, cvars>>

(***************************************************************************)
(* BackgroundTask.__init__.  kind, run and work are the control state:     *)
(*   kind : which operation made the object ("none": id not handed out)    *)
(*   run  : the asyncio.Task self._task running _run_with_cancellation     *)
(*          none (no _task) / scheduled / waiting (in asyncio.wait) / done *)
(*   work : the wrapped coroutine (or the crawl runner thread)             *)
(* completed_at is <<>> for None and <<t>> for a timestamp.                *)
(***************************************************************************)
NewTask(k) ==
  [kind |-> k, status |-> PENDING, progress |-> 0, result |-> FALSE,
   error |-> FALSE, completed_at |-> <<>>, cancel_event |-> FALSE,
   run |-> "none", work |-> "unstarted"]

NoTask == NewTask("none")

\* BackgroundTaskService.__init__ has started the periodic cleanup loop and
\* shutdown() has not been called.
\*   loop    : self._cleanup_task is running _periodic_cleanup
\*   phase   : up / stopping (shutdown awaits the cleanup task) /
\*             settling (in its sleep(1)) / down (it has returned)
\*   targets : history, the pending and running tasks of active_tasks when
\*             shutdown was called
Serving == [loop |-> TRUE, phase |-> "up", targets |-> {}]

\* No run of _cleanup_old_tasks is in progress.
NoSweep == [pc |-> "idle", current_time |-> 0, used |-> 0, pos |-> 0, to_remove |-> <<>>]

Kinds == {"none", "create", "pdf", "crawl"}
RunStates == {"none", "scheduled", "waiting", "done"}
WorkStates == {"unstarted", "running", "returned", "raised", "cancelled",
               "pdf", "embed", "store", "queued", "crawling"}

SeqToSet(s) == {s[i] : i \in 1..Len(s)}

(* --------------------------- BiwaseCrawler.__init__ -------------------- *)
\* The URLs a behaviour of FetchSpec requests.
FetchUrls == {"base", "doc"}

\* self.stats as __init__ builds it.  An entry of errors is the url and the
\* text of the last exception (the timestamp is left out).
NewStats ==
  [pages_processed |-> 0, news_articles_found |-> 0, pdfs_found |-> 0,
   pdfs_downloaded |-> 0, errors |-> <<>>]

\* The constructor's defaults: max_retries = 3, retry_delay = 1.0.
DefaultConfig == [max_retries |-> 3, retry_delay |-> 1]

Configs == [max_retries : 0..MaxRetries, retry_delay : 1..MaxRetryDelay]

\* No call of _make_request_with_retry has been made yet.
\*   phase    : idle / trying (inside the for loop) / returned
\*   attempt  : the loop variable, the number of requests made so far
\*   log      : what each request of this call met, in order
\*   sleeps   : <<k, d>> for each time.sleep(d) made before request k
\*   returned : what the call returned ("response" or "None")
\*   errors0  : len(stats['errors']) when the call was made
\*   calls    : the number of calls made so far
NoFetch ==
  [phase |-> "idle", url |-> "base", attempt |-> 0, log |-> <<>>,
   sleeps |-> <<>>, returned |-> "-", errors0 |-> 0, calls |-> 0]

\* No call of crawl_simple has been made yet.
\*   pc       : idle / base / pages / news / download / done
\*   full     : the run was started by crawl_full_pipeline
\*   service  : a background_tasks_service was passed to it
\*   files    : the files of output_dir, each with its name and the URL
\*              whose bytes it holds ("partial" for a file cut short)
\*   raised   : the run ended in the except clause
\*   sleeps   : the URL that was fetched after each
\*              time.sleep(self.rate_limit_delay) of the run, in order
\*   history  : every call of the fetcher the run made, in order, with
\*              what came of it
\* and the locals of crawl_simple; page_i, news_i and pdf_i are the
\* positions of the three for loops.
NoCrawl ==
  [pc |-> "idle", runs |-> 0, full |-> FALSE, service |-> FALSE,
   files |-> {}, raised |-> FALSE, history |-> <<>>, sleeps |-> <<>>,
   pages_num |-> <<>>, page_i |-> 1, pages_found |-> 0,
   all_news |-> <<>>, unique_news |-> <<>>, news_i |-> 1,
   all_pdfs |-> <<>>, unique_pdfs |-> <<>>, pdf_i |-> 1,
   download_results |-> <<>>, downloaded_count |-> 0]

\* The state BiwaseCrawler.__init__ leaves, for a given configuration.
BiwaseCrawler(cfg) ==
  /\ config = cfg
  /\ stats = NewStats
  /\ fetch = NoFetch
  /\ crawl = NoCrawl
  /\ results = <<>>

(* ------------------------------ the website ---------------------------- *)
BaseUrl == "base"
PageUrls == {"p1", "p2"}
NewsUrls == {"a1", "a2"}
\* Two of the document URLs end in the same path segment.
PdfUrls == {"/x/doc1.pdf", "/y/doc1.pdf", "/x/doc2.pdf"}

\* The a.ModulePager links of the base page, in document order.
PageLists == {<<>>, <<"p1">>, <<"p1", "p2">>, <<"p1", "p1">>}

\* The a.img-scale links of each pagination page.
NewsMaps ==
  {[p \in PageUrls |-> <<"a1">>],
   [p \in PageUrls |-> IF p = "p1" THEN <<"a1", "a2">> ELSE <<>>],
   [p \in PageUrls |-> IF p = "p1" THEN <<"a1">> ELSE <<"a2">>]}

\* The iframe sources of each news article.
PdfMaps ==
  {[a \in NewsUrls |-> <<"/x/doc1.pdf">>],
   [a \in NewsUrls |-> IF a = "a1" THEN <<"/x/doc1.pdf", "/x/doc2.pdf">>
                                    ELSE <<"/x/doc2.pdf", "/y/doc1.pdf">>],
   [a \in NewsUrls |-> IF a = "a1" THEN <<>> ELSE <<"/x/doc2.pdf", "/x/doc2.pdf">>]}

Sites == [pages : PageLists, news : NewsMaps, pdfs : PdfMaps]

\* A site with nothing on its base page.
EmptySite ==
  [pages |-> <<>>, news |-> [p \in PageUrls |-> <<>>],
   pdfs |-> [a \in NewsUrls |-> <<>>]]

TypeOK ==
  /\ tasks \in [Ids -> [kind : Kinds, status : TaskStatus, progress : 0..100,
                        result : BOOLEAN, error : BOOLEAN,
                        completed_at : {<<>>} \cup {<<t>> : t \in (0 - 1)..(MaxTime + 1)},
                        cancel_event : BOOLEAN, run : RunStates,
                        work : WorkStates]]
  /\ active_tasks \subseteq Ids
  /\ completed_tasks \in Seq(Ids)
  /\ evicted \subseteq Ids
  /\ next_id \in 1..(MaxTasks + 1)
  /\ outcome \in {"-", "None", "id", "swept", "True", "False", "progress", "raised"}
  /\ cleanup_scheduled \in BOOLEAN
  /\ now \in 0..MaxTime
  /\ tz \in TzOffsets
  /\ lifecycle \in [loop : BOOLEAN, phase : {"up", "stopping", "settling", "down"},
                    targets : SUBSET Ids]
  /\ sweep \in [pc : {"idle", "iter", "remove"}, current_time : 0..MaxTime,
                used : 0..MaxTasks, pos : 0..MaxTasks, to_remove : Seq(Ids)]

Init ==
  /\ tasks = [i \in Ids |-> NoTask]
  /\ active_tasks = {}
  /\ completed_tasks = <<>>
  /\ evicted = {}
  /\ next_id = 1
  /\ outcome = "-"
  /\ cleanup_scheduled = FALSE
  /\ now = 0
  /\ tz \in TzOffsets
  /\ lifecycle = Serving
  /\ sweep = NoSweep
  /\ BiwaseCrawler(DefaultConfig)
  /\ site = EmptySite

(* ------------------------ BackgroundTask ------------------------------ *)
Task(id) == tasks[id]

\* An id stands for a BackgroundTask object once an operation has built one
\* for it (a crawl id is handed out before its runner builds the object).
Created(id) == Task(id).kind # "none" /\ Task(id).work # "queued"

\* BackgroundTask.is_cancelled
is_cancelled(id) == Task(id).cancel_event

\* BackgroundTask.start: status and the scheduling of self._task.
start(t) == [t EXCEPT !.status = RUNNING, !.run = "scheduled"]

\* Mutant: cancel() without the check of the status.
cancel_Unchecked(t) ==
  [t EXCEPT !.cancel_event = TRUE, !.status = CANCELLED, !.completed_at = <<now>>]

\* BackgroundTask.cancel: a no-op unless pending or running.  The event is
\* set, self._task (if any, not done) is cancelled, the status is stamped.
\* A cancelled self._task receives CancelledError at its next step: that
\* is "cancel_event /\ run # done" below.
cancel(t) ==
  IF t.status \in {PENDING, RUNNING}
    THEN [t EXCEPT !.cancel_event = TRUE, !.status = CANCELLED,
                   !.completed_at = <<now>>]
    ELSE t

\* Mutant: min(100, progress), without the floor.
Clamp_NoFloor(p) == IF p > 100 THEN 100 ELSE p

\* max(0, min(100, progress))
Clamp(p) == IF p < 0 THEN 0 ELSE IF p > 100 THEN 100 ELSE p

\* BackgroundTask.update_progress
update_progress(t, p) == [t EXCEPT !.progress = Clamp(p)]

(* --------------------- BackgroundTaskService helpers ------------------ *)
\* Mutant: the limit compared with <= (one task too many is admitted).
check_task_limits_inclusive == Cardinality(active_tasks) <= max_active_tasks

\* _check_task_limits: True when a new task may be admitted.
check_task_limits == Cardinality(active_tasks) < max_active_tasks

\* _move_completed_task(task_id), called while the task has status st:
\* the record moves only if it is in active_tasks and st is terminal.
Moves(id, st) == id \in active_tasks /\ st \in Terminal

\* Mutant: the move forgets "del self.active_tasks[task_id]".
ActiveAfterMove_KeepsRecord(id, st) == active_tasks

ActiveAfterMove(id, st) ==
  IF Moves(id, st) THEN active_tasks \ {id} ELSE active_tasks

CompletedAfterMove(id, st) ==
  IF Moves(id, st) THEN Append(completed_tasks, id) ELSE completed_tasks

\* len(self.completed_tasks) > self.max_completed_tasks * 0.8, after the
\* move; in_loop: the caller runs on the event loop.  From a crawl runner
\* (a worker thread) asyncio.create_task raises RuntimeError instead, which
\* the runner's except clause swallows: nothing is scheduled.
SchedulesCleanup(id, st, in_loop) ==
  /\ Moves(id, st)
  /\ in_loop
  /\ Len(CompletedAfterMove(id, st)) * 10 > max_completed_tasks * 8

(* --------------------------- _cleanup_old_tasks ------------------------ *)
\* (current_time - task.completed_at).total_seconds() > self.max_task_age
Aged(id) ==
  /\ Task(id).completed_at # <<>>
  /\ now - Task(id).completed_at[1] > max_task_age

AfterAgeSweep == SelectSeq(completed_tasks, LAMBDA i : ~Aged(i))

\* key=lambda x: x[1].completed_at or x[1].created_at.  Every record of
\* completed_tasks has completed_at set (CompletedStamped below), so the
\* created_at branch is never taken and created_at is not tracked.
SortKey(id) == IF Task(id).completed_at # <<>> THEN Task(id).completed_at[1] ELSE 0

\* sorted() is stable: equal keys keep dict order.
RECURSIVE InsertByKey(_, _)
InsertByKey(x, s) ==
  IF s = <<>> THEN <<x>>
  ELSE IF SortKey(s[Len(s)]) <= SortKey(x) THEN Append(s, x)
  ELSE Append(InsertByKey(x, SubSeq(s, 1, Len(s) - 1)), s[Len(s)])

RECURSIVE SortedTasks(_)
SortedTasks(s) ==
  IF s = <<>> THEN <<>>
  ELSE InsertByKey(s[Len(s)], SortedTasks(SubSeq(s, 1, Len(s) - 1)))

\* Python's s[:-m]: all but the last m; s[:-0] is s[:0], the empty list.
SliceEnd(len, m) == IF m = 0 THEN 0 ELSE IF len - m < 0 THEN 0 ELSE len - m

\* Mutant: the slice keeps the head of the sorted list and drops its tail,
\* sorted_tasks[max_completed_tasks:] (the newest records go).
ExcessTasks_Newest(s) ==
  IF Len(s) > max_completed_tasks
    THEN SeqToSet(SubSeq(SortedTasks(s), max_completed_tasks + 1, Len(s)))
    ELSE {}

\* tasks_to_remove = sorted_tasks[:-self.max_completed_tasks], when the dict
\* holds more than max_completed_tasks records.
ExcessTasks(s) ==
  IF Len(s) > max_completed_tasks
    THEN SeqToSet(SubSeq(SortedTasks(s), 1, SliceEnd(Len(s), max_completed_tasks)))
    ELSE {}

\* completed_tasks after one whole sweep.
CleanedUp ==
  LET kept == AfterAgeSweep
  IN  SelectSeq(kept, LAMBDA i : i \notin ExcessTasks(kept))

cleanup_old_tasks ==
  /\ completed_tasks' = CleanedUp
  /\ evicted' = evicted \cup (SeqToSet(completed_tasks) \ SeqToSet(CleanedUp))

(* ------------------------- service operations ------------------------- *)
\* uuid.uuid4().hex[:8]: the generator is taken to return an id that was
\* never handed out before; ids are numbered in the order they are drawn.
FreshId(id) == id = next_id /\ next_id <= MaxTasks

\* BackgroundTaskService.create_task.  The limit check comes first and
\* returns None before any id is drawn.
create_task(id) ==
  IF ~check_task_limits
    THEN /\ outcome' = "None"
         /\ UNCHANGED <<cvars, sweep, lifecycle, tasks, active_tasks, completed_tasks, evicted, next_id,
                        cleanup_scheduled, now, tz>>
    ELSE /\ FreshId(id)
         /\ tasks' = [tasks EXCEPT ![id] = start(NewTask("create"))]
         /\ active_tasks' = active_tasks \cup {id}
         /\ next_id' = next_id + 1
         /\ outcome' = "id"
         /\ UNCHANGED <<cvars, sweep, lifecycle, completed_tasks, evicted, cleanup_scheduled, now, tz>>

\* BackgroundTaskService.start_pdf_processing_task: no limit check, and the
\* work is started bare, without the wrapper that moves the record.
start_pdf_processing_task(id) ==
  /\ FreshId(id)
  /\ tasks' = [tasks EXCEPT ![id] = start(NewTask("pdf"))]
  /\ active_tasks' = active_tasks \cup {id}
  /\ next_id' = next_id + 1
  /\ outcome' = "-"
  /\ UNCHANGED <<cvars, sweep, lifecycle, completed_tasks, evicted, cleanup_scheduled, now, tz>>

\* Mutant: the lookup also finds the records of completed_tasks.
Cancellable_AnyStore(id) ==
  /\ id \in active_tasks \cup SeqToSet(completed_tasks)
  /\ Task(id).status \in {PENDING, RUNNING, COMPLETED}

\* task = self.active_tasks.get(task_id);
\* if task and task.status in [PENDING, RUNNING]
Cancellable(id) ==
  /\ id \in active_tasks
  /\ Task(id).status \in {PENDING, RUNNING}

\* BackgroundTaskService.cancel_task: cancels and returns True for a task it
\* finds pending or running in active_tasks, returns False otherwise.
cancel_task(id) ==
  /\ tasks' = IF Cancellable(id) THEN [tasks EXCEPT ![id] = cancel(@)] ELSE tasks
  /\ outcome' = IF Cancellable(id) THEN "True" ELSE "False"
  /\ UNCHANGED <<cvars, sweep, lifecycle, active_tasks, completed_tasks, evicted, next_id, cleanup_scheduled, now, tz>>

\* BackgroundTaskService.get_task_status: the record under the id in
\* active_tasks, else the one in completed_tasks, else None.
get_task_status(id) ==
  IF id \in active_tasks THEN [found |-> TRUE, task |-> Task(id)]
  ELSE IF id \in SeqToSet(completed_tasks) THEN [found |-> TRUE, task |-> Task(id)]
  ELSE [found |-> FALSE, task |-> NoTask]

(* --------------------- _run_with_cancellation ------------------------- *)
\* First step of self._task.  Cancelled before it ran, the coroutine gets
\* CancelledError before its first statement: no handler of it runs and the
\* wrapped coroutine is never scheduled.  Otherwise it schedules the work
\* and the event waiter and suspends in asyncio.wait.
RunFirstStep(id) ==
  /\ Task(id).run = "scheduled"
  /\ tasks' = [tasks EXCEPT ![id] =
       IF @.cancel_event THEN [@ EXCEPT !.run = "done"]
       ELSE [@ EXCEPT !.run = "waiting", !.work = "running"]]
  /\ outcome' = "-"
  /\ UNCHANGED <<cvars, sweep, lifecycle, active_tasks, completed_tasks, evicted, next_id, cleanup_scheduled, now, tz>>

\* self._task resumes from asyncio.wait with CancelledError (cancel() was
\* called): lines 80-82.  asyncio.wait does not cancel the work.
RunCancelled(id) ==
  /\ Task(id).run = "waiting"
  /\ Task(id).cancel_event
  /\ tasks' = [tasks EXCEPT ![id] =
       [@ EXCEPT !.status = CANCELLED, !.completed_at = <<now>>, !.run = "done"]]
  /\ outcome' = "-"
  /\ UNCHANGED <<cvars, sweep, lifecycle, active_tasks, completed_tasks, evicted, next_id, cleanup_scheduled, now, tz>>

\* self._task resumes from asyncio.wait because the work is done: lines
\* 74-78 when it returned, 83-87 when it raised.
RunResume(id) ==
  /\ Task(id).run = "waiting"
  /\ ~Task(id).cancel_event
  /\ Task(id).work \in {"returned", "raised"}
  /\ tasks' = [tasks EXCEPT ![id] =
       IF @.work = "returned"
         THEN [@ EXCEPT !.result = TRUE, !.status = COMPLETED,
                        !.completed_at = <<now>>, !.run = "done"]
         ELSE [@ EXCEPT !.error = TRUE, !.status = FAILED,
                        !.completed_at = <<now>>, !.run = "done"]]
  /\ outcome' = "-"
  /\ UNCHANGED <<cvars, sweep, lifecycle, active_tasks, completed_tasks, evicted, next_id, cleanup_scheduled, now, tz>>

(* ------------------------ create_task.task_wrapper -------------------- *)
\* The wrapped work ends (returned: it returned, else it raised); the
\* finally clause calls _move_completed_task with the status of that moment.
WorkEnds(id, returned) ==
  /\ Task(id).kind = "create"
  /\ Task(id).work = "running"
  /\ tasks' = [tasks EXCEPT ![id].work = IF returned THEN "returned" ELSE "raised"]
  /\ active_tasks' = ActiveAfterMove(id, Task(id).status)
  /\ completed_tasks' = CompletedAfterMove(id, Task(id).status)
  /\ cleanup_scheduled' =
       (cleanup_scheduled \/ SchedulesCleanup(id, Task(id).status, TRUE))
  /\ outcome' = "-"
  /\ UNCHANGED <<cvars, sweep, lifecycle, evicted, next_id, now, tz>>

(* ------------------------ _process_pdf_background --------------------- *)
\* Each action is the code from one await to the next.  A cancellation
\* checkpoint raises CancelledError when the event is set.
PdfStart(id) ==
  /\ Task(id).kind = "pdf"
  /\ Task(id).work = "running"
  /\ tasks' = [tasks EXCEPT ![id] =
       IF @.cancel_event THEN [@ EXCEPT !.work = "cancelled"]
       ELSE [update_progress(@, 10) EXCEPT !.work = "pdf"]]
  /\ outcome' = "-"
  /\ UNCHANGED <<cvars, sweep, lifecycle, active_tasks, completed_tasks, evicted, next_id, cleanup_scheduled, now, tz>>

\* process_pdf_async is back (ok: pdf_result["success"]).
PdfProcessed(id, ok) ==
  /\ Task(id).kind = "pdf"
  /\ Task(id).work = "pdf"
  /\ tasks' = [tasks EXCEPT ![id] =
       IF ~ok THEN [@ EXCEPT !.work = "raised"]
       ELSE IF @.cancel_event THEN [@ EXCEPT !.work = "cancelled"]
       ELSE [update_progress(@, 50) EXCEPT !.work = "embed"]]
  /\ outcome' = "-"
  /\ UNCHANGED <<cvars, sweep, lifecycle, active_tasks, completed_tasks, evicted, next_id, cleanup_scheduled, now, tz>>

\* chunk_and_embed is back (ok: it did not raise; points: some embedding
\* is not None, so there is something to store).
PdfEmbedded(id, ok, points) ==
  /\ Task(id).kind = "pdf"
  /\ Task(id).work = "embed"
  /\ tasks' = [tasks EXCEPT ![id] =
       IF ~ok THEN [@ EXCEPT !.work = "raised"]
       ELSE IF @.cancel_event THEN [@ EXCEPT !.work = "cancelled"]
       ELSE IF points THEN [update_progress(@, 80) EXCEPT !.work = "store"]
       ELSE [update_progress(@, 100) EXCEPT !.work = "returned"]]
  /\ outcome' = "-"
  /\ UNCHANGED <<cvars, sweep, lifecycle, active_tasks, completed_tasks, evicted, next_id, cleanup_scheduled, now, tz>>

\* qdrant_service.add_points is back (ok: qdrant_result["success"]).
PdfStored(id, ok) ==
  /\ Task(id).kind = "pdf"
  /\ Task(id).work = "store"
  /\ tasks' = [tasks EXCEPT ![id] =
       IF ~ok THEN [@ EXCEPT !.work = "raised"]
       ELSE [update_progress(@, 100) EXCEPT !.work = "returned"]]
  /\ outcome' = "-"
  /\ UNCHANGED <<cvars, sweep, lifecycle, active_tasks, completed_tasks, evicted, next_id, cleanup_scheduled, now, tz>>

(* ----------------------- CrawlService crawl runners ------------------- *)
\* start_crawl_operation: draws the id, queues the runner and returns the
\* id; no BackgroundTask exists yet.
start_crawl_operation(id) ==
  /\ FreshId(id)
  /\ tasks' = [tasks EXCEPT ![id] = [NewTask("crawl") EXCEPT !.work = "queued"]]
  /\ next_id' = next_id + 1
  /\ outcome' = "-"
  /\ UNCHANGED <<cvars, sweep, lifecycle, active_tasks, completed_tasks, evicted, cleanup_scheduled, now, tz>>

\* _execute_*_crawl_background, lines 213-226: the runner builds the task,
\* stores it in active_tasks (no limit check) and marks it running itself;
\* start() is never called, so the task has no self._task.
CrawlRegister(id) ==
  /\ Task(id).kind = "crawl"
  /\ Task(id).work = "queued"
  /\ tasks' = [tasks EXCEPT ![id] =
       [NewTask("crawl") EXCEPT !.status = RUNNING, !.work = "crawling"]]
  /\ active_tasks' = active_tasks \cup {id}
  /\ outcome' = "-"
  /\ UNCHANGED <<cvars, sweep, lifecycle, completed_tasks, evicted, next_id, cleanup_scheduled, now, tz>>

\* The outcome the runner records, lines 242-255: whatever the status is by
\* then.  The runner stamps with datetime.now().
CrawlOutcome(t, success) ==
  IF success
    THEN [t EXCEPT !.status = COMPLETED, !.progress = 100, !.result = TRUE,
                   !.completed_at = <<now + tz>>, !.work = "returned"]
    ELSE [t EXCEPT !.status = FAILED, !.error = TRUE, !.result = TRUE,
                   !.completed_at = <<now + tz>>, !.work = "raised"]

\* The crawl is back (the crawler catches its own exceptions and reports
\* success or not): the runner records the outcome and moves the record.
CrawlFinish(id, success) ==
  /\ Task(id).kind = "crawl"
  /\ Task(id).work = "crawling"
  /\ tasks' = [tasks EXCEPT ![id] = CrawlOutcome(@, success)]
  /\ active_tasks' = ActiveAfterMove(id, CrawlOutcome(Task(id), success).status)
  /\ completed_tasks' = CompletedAfterMove(id, CrawlOutcome(Task(id), success).status)
  /\ cleanup_scheduled' =
       (cleanup_scheduled
          \/ SchedulesCleanup(id, CrawlOutcome(Task(id), success).status, FALSE))
  /\ outcome' = "-"
  /\ UNCHANGED <<cvars, sweep, lifecycle, evicted, next_id, now, tz>>

(* ------------------------------ cleanup ------------------------------- *)
\* _periodic_cleanup: one sweep of the loop (the sleep is any delay).
PeriodicCleanup ==
  /\ lifecycle.loop
  /\ cleanup_old_tasks
  /\ outcome' = "swept"
  /\ UNCHANGED <<cvars, sweep, lifecycle, tasks, active_tasks, next_id, cleanup_scheduled, now, tz>>

\* The sweep that _move_completed_task scheduled runs.
ScheduledCleanup ==
  /\ cleanup_scheduled
  /\ cleanup_scheduled' = FALSE
  /\ cleanup_old_tasks
  /\ outcome' = "swept"
  /\ UNCHANGED <<cvars, sweep, lifecycle, tasks, active_tasks, next_id, now, tz>>

\* Time passes.
Tick ==
  /\ now < MaxTime
  /\ now' = now + 1
  /\ outcome' = "-"
  /\ UNCHANGED <<cvars, sweep, lifecycle, tasks, active_tasks, completed_tasks, evicted, next_id, cleanup_scheduled, tz>>

Next ==
  \/ \E id \in Ids : create_task(id)
  \/ \E id \in Ids : start_pdf_processing_task(id)
  \/ \E id \in Ids : start_crawl_operation(id)
  \/ \E id \in Ids : cancel_task(id)
  \/ \E id \in Ids : RunFirstStep(id)
  \/ \E id \in Ids : RunCancelled(id)
  \/ \E id \in Ids : RunResume(id)
  \/ \E id \in Ids, returned \in BOOLEAN : WorkEnds(id, returned)
  \/ \E id \in Ids : PdfStart(id)
  \/ \E id \in Ids, ok \in BOOLEAN : PdfProcessed(id, ok)
  \/ \E id \in Ids, ok \in BOOLEAN, points \in BOOLEAN : PdfEmbedded(id, ok, points)
  \/ \E id \in Ids, ok \in BOOLEAN : PdfStored(id, ok)
  \/ \E id \in Ids : CrawlRegister(id)
  \/ \E id \in Ids, success \in BOOLEAN : CrawlFinish(id, success)
  \/ PeriodicCleanup
  \/ ScheduledCleanup
  \/ Tick

Spec == Init /\ [][Next]_allvars

(* ------------- the sweep beside the crawl runners' threads ------------- *)
\* The crawl runners are plain functions handed to BackgroundTasks.add_task
\* and run in worker threads, while the sweep runs on the event loop.  The
\* service takes no lock, so a runner's steps fall between any two steps of
\* a sweep; the other handlers of the event loop run only between sweeps.

\* (current_time - task.completed_at).total_seconds() > self.max_task_age
AgedAt(id, current_time) ==
  /\ Task(id).completed_at # <<>>
  /\ current_time - Task(id).completed_at[1] > max_task_age

\* Lines 162-165: current_time is read and the for statement takes an
\* iterator of completed_tasks.items(), which notes the size of the dict.
SweepBegins ==
  /\ lifecycle.loop
  /\ sweep.pc = "idle"
  /\ sweep' = [pc |-> "iter", current_time |-> now, used |-> Len(completed_tasks),
                pos |-> 0, to_remove |-> <<>>]
  /\ outcome' = "-"
  /\ UNCHANGED <<cvars, lifecycle, tasks, active_tasks, completed_tasks, evicted, next_id, cleanup_scheduled, now, tz>>

\* Lines 165-167, one turn of the loop: the iterator raises RuntimeError
\* ("dictionary changed size during iteration") when the dict no longer has
\* the size it noted, and the sweep ends there (_periodic_cleanup logs the
\* error); else it yields the next record, or it is exhausted.
SweepVisits ==
  /\ sweep.pc = "iter"
  /\ IF Len(completed_tasks) # sweep.used
       THEN sweep' = NoSweep /\ outcome' = "raised"
       ELSE IF sweep.pos < sweep.used
         THEN /\ sweep' = [sweep EXCEPT
                   !.pos = @ + 1,
                   !.to_remove =
                     IF AgedAt(completed_tasks[sweep.pos + 1], sweep.current_time)
                       THEN Append(@, completed_tasks[sweep.pos + 1]) ELSE @]
              /\ outcome' = "-"
         ELSE /\ sweep' = [sweep EXCEPT !.pc = "remove"]
              /\ outcome' = "-"
  /\ UNCHANGED <<cvars, lifecycle, tasks, active_tasks, completed_tasks, evicted, next_id, cleanup_scheduled, now, tz>>

\* completed_tasks after lines 168-183: the records of to_remove deleted,
\* then the oldest ones beyond max_completed_tasks.
AfterRemoval ==
  LET kept == SelectSeq(completed_tasks, LAMBDA i : i \notin SeqToSet(sweep.to_remove))
  IN  SelectSeq(kept, LAMBDA i : i \notin ExcessTasks(kept))

SweepRemoves ==
  /\ sweep.pc = "remove"
  /\ completed_tasks' = AfterRemoval
  /\ evicted' = evicted \cup (SeqToSet(completed_tasks) \ SeqToSet(AfterRemoval))
  /\ sweep' = NoSweep
  /\ outcome' = "swept"
  /\ UNCHANGED <<cvars, lifecycle, tasks, active_tasks, next_id, cleanup_scheduled, now, tz>>

\* The event loop is free to run another handler.
LoopFree == sweep.pc = "idle"

ThreadInit == Init

ThreadNext ==
  \/ LoopFree /\ \E id \in Ids : create_task(id)
  \/ LoopFree /\ \E id \in Ids : start_crawl_operation(id)
  \/ LoopFree /\ \E id \in Ids : RunFirstStep(id)
  \/ LoopFree /\ \E id \in Ids : RunResume(id)
  \/ LoopFree /\ \E id \in Ids, returned \in BOOLEAN : WorkEnds(id, returned)
  \/ \E id \in Ids : CrawlRegister(id)
  \/ \E id \in Ids, success \in BOOLEAN : CrawlFinish(id, success)
  \/ SweepBegins
  \/ SweepVisits
  \/ SweepRemoves
  \/ Tick

ThreadSpec == ThreadInit /\ [][ThreadNext]_allvars

(* ------------------- a host far from the UTC meridian ------------------ *)
\* datetime.now() - datetime.utcnow() on a host west of UTC by more than
\* max_task_age (an hour against the thirty minutes of the service).
FarWest == 0 - (max_task_age + 1)

\* The service as __init__ leaves it, on such a host.
SkewInit ==
  /\ tasks = [i \in Ids |-> NoTask]
  /\ active_tasks = {}
  /\ completed_tasks = <<>>
  /\ evicted = {}
  /\ next_id = 1
  /\ outcome = "-"
  /\ cleanup_scheduled = FALSE
  /\ now = 0
  /\ tz = FarWest
  /\ lifecycle = Serving
  /\ sweep = NoSweep
  /\ BiwaseCrawler(DefaultConfig)
  /\ site = EmptySite

\* Tasks of both kinds of stamp, the sweeps and the clock.
SkewNext ==
  \/ \E id \in Ids : create_task(id)
  \/ \E id \in Ids : start_crawl_operation(id)
  \/ \E id \in Ids : cancel_task(id)
  \/ \E id \in Ids : RunFirstStep(id)
  \/ \E id \in Ids : RunCancelled(id)
  \/ \E id \in Ids : RunResume(id)
  \/ \E id \in Ids, returned \in BOOLEAN : WorkEnds(id, returned)
  \/ \E id \in Ids : CrawlRegister(id)
  \/ \E id \in Ids, success \in BOOLEAN : CrawlFinish(id, success)
  \/ PeriodicCleanup
  \/ ScheduledCleanup
  \/ Tick

SkewSpec == SkewInit /\ [][SkewNext]_allvars

(* ------------------------- ids drawn at random ------------------------ *)
\* uuid.uuid4().hex[:8] without the assumption of FreshId: the eight digits
\* may be those of an id in use, and create_task does not look.  next_id
\* counts the ids drawn.
AnyId(id) == id \in Ids /\ next_id <= MaxTasks

\* BackgroundTaskService.create_task with such a generator:
\* self.active_tasks[task_id] = task stores the new object under the id,
\* whatever was registered under it.
create_task_any(id) ==
  IF ~check_task_limits
    THEN /\ outcome' = "None"
         /\ UNCHANGED <<cvars, sweep, lifecycle, tasks, active_tasks, completed_tasks, evicted,
                        next_id, cleanup_scheduled, now, tz>>
    ELSE /\ AnyId(id)
         /\ tasks' = [tasks EXCEPT ![id] = start(NewTask("create"))]
         /\ active_tasks' = active_tasks \cup {id}
         /\ next_id' = next_id + 1
         /\ outcome' = "id"
         /\ UNCHANGED <<cvars, sweep, lifecycle, completed_tasks, evicted, cleanup_scheduled,
                        now, tz>>

IdInit == Init /\ tz = 0

\* create_task and the life of the tasks it starts.
IdNext ==
  \/ \E id \in Ids : create_task_any(id)
  \/ \E id \in Ids : cancel_task(id)
  \/ \E id \in Ids : RunFirstStep(id)
  \/ \E id \in Ids : RunCancelled(id)
  \/ \E id \in Ids : RunResume(id)
  \/ \E id \in Ids, returned \in BOOLEAN : WorkEnds(id, returned)
  \/ PeriodicCleanup
  \/ ScheduledCleanup
  \/ Tick

IdSpec == IdInit /\ [][IdNext]_allvars

(* --------------------------- update_progress -------------------------- *)
\* The values a caller passes to update_progress.
ProgressInputs == {0 - 1, 0, 37, 100, 101}

\* A holder of the task object calls task.update_progress(p).
UpdateProgress(id, p) ==
  /\ Created(id)
  /\ tasks' = [tasks EXCEPT ![id] = update_progress(@, p)]
  /\ outcome' = "progress"
  /\ UNCHANGED <<cvars, sweep, lifecycle, active_tasks, completed_tasks, evicted, next_id,
                 cleanup_scheduled, now, tz>>

\* The service in one time zone, with callers of update_progress.
ProgressInit == Init /\ tz = 0

\* Every operation of the service and every step of its tasks, within one
\* unit of the clock.
ProgressNext ==
  \/ \E id \in Ids : create_task(id)
  \/ \E id \in Ids : start_pdf_processing_task(id)
  \/ \E id \in Ids : start_crawl_operation(id)
  \/ \E id \in Ids : cancel_task(id)
  \/ \E id \in Ids : RunFirstStep(id)
  \/ \E id \in Ids : RunCancelled(id)
  \/ \E id \in Ids : RunResume(id)
  \/ \E id \in Ids, returned \in BOOLEAN : WorkEnds(id, returned)
  \/ \E id \in Ids : PdfStart(id)
  \/ \E id \in Ids, ok \in BOOLEAN : PdfProcessed(id, ok)
  \/ \E id \in Ids, ok \in BOOLEAN, points \in BOOLEAN : PdfEmbedded(id, ok, points)
  \/ \E id \in Ids, ok \in BOOLEAN : PdfStored(id, ok)
  \/ \E id \in Ids : CrawlRegister(id)
  \/ \E id \in Ids, success \in BOOLEAN : CrawlFinish(id, success)
  \/ PeriodicCleanup
  \/ ScheduledCleanup
  \/ \E id \in Ids, p \in ProgressInputs : UpdateProgress(id, p)

ProgressSpec == ProgressInit /\ [][ProgressNext]_allvars

(* ------------------------------ shutdown ------------------------------ *)
\* What shutdown's "for task in self.active_tasks.values(): task.cancel()"
\* does to the task registered under id.
Stopped(id) == IF id \in active_tasks THEN cancel(Task(id)) ELSE Task(id)

\* shutdown() is called: it cancels self._cleanup_task and awaits it.  The
\* loop is suspended in its sleep, gets CancelledError there and breaks.
shutdown ==
  /\ lifecycle.phase = "up"
  /\ lifecycle' = [loop |-> FALSE, phase |-> "stopping",
                   targets |-> {id \in active_tasks :
                                  Task(id).status \in {PENDING, RUNNING}}]
  /\ outcome' = "-"
  /\ UNCHANGED <<cvars, sweep, tasks, active_tasks, completed_tasks, evicted, next_id,
                 cleanup_scheduled, now, tz>>

\* The await is over: every record of active_tasks gets cancel(), then
\* shutdown sleeps for a second.
ShutdownCancels ==
  /\ lifecycle.phase = "stopping"
  /\ tasks' = [id \in Ids |-> Stopped(id)]
  /\ lifecycle' = [lifecycle EXCEPT !.phase = "settling"]
  /\ outcome' = "-"
  /\ UNCHANGED <<cvars, sweep, active_tasks, completed_tasks, evicted, next_id,
                 cleanup_scheduled, now, tz>>

\* The sleep is over: shutdown() returns.
ShutdownReturns ==
  /\ lifecycle.phase = "settling"
  /\ lifecycle' = [lifecycle EXCEPT !.phase = "down"]
  /\ outcome' = "-"
  /\ UNCHANGED <<cvars, sweep, tasks, active_tasks, completed_tasks, evicted, next_id,
                 cleanup_scheduled, now, tz>>

\* The service in one time zone, with a call of shutdown() in its life.
ShutdownInit == Init /\ tz = 0

ShutdownNext ==
  \/ Next
  \/ shutdown
  \/ ShutdownCancels
  \/ ShutdownReturns

ShutdownSpec == ShutdownInit /\ [][ShutdownNext]_allvars

(* ===================== the retrying fetcher =========================== *)
\* The background task service with no task in it: the crawler
\* specifications leave it alone.
ServiceAtRest ==
  /\ tasks = [i \in Ids |-> NoTask]
  /\ active_tasks = {}
  /\ completed_tasks = <<>>
  /\ evicted = {}
  /\ next_id = 1
  /\ outcome = "-"
  /\ cleanup_scheduled = FALSE
  /\ now = 0
  /\ tz = 0
  /\ lifecycle = Serving
  /\ sweep = NoSweep

\* Status codes a server answers with.
StatusCodes == {200, 400, 401, 403, 404, 410, 500}

\* What self.session.request(method, url, **kwargs) does in one attempt: it
\* returns a response with a status code (raises = "-"), or it raises
\*   ConnectionError, Timeout : requests.exceptions.RequestException
\*                              subclasses that carry no response
\*   Exception                : anything that is no RequestException
Transport ==
  {[raises |-> "-", status |-> c] : c \in StatusCodes}
    \cup {[raises |-> x, status |-> 0] : x \in {"ConnectionError", "Timeout", "Exception"}}

\* response.raise_for_status(): HTTPError for a 4xx or 5xx status.  The
\* exception the try block of one attempt ends with, "-" for none.
Raised(o) ==
  IF o.raises # "-" THEN o.raises
  ELSE IF o.status >= 400 /\ o.status < 600 THEN "HTTPError"
  ELSE "-"

\* except requests.exceptions.RequestException
IsRequestException(e) == e \in {"ConnectionError", "Timeout", "HTTPError"}

\* Mutant: 410 is missing from the list of statuses that are not retried.
NonRetryable_No410 == {400, 401, 403, 404}

\* e.response.status_code in [400, 401, 403, 404, 410]
NonRetryable == {400, 401, 403, 404, 410}

\* Mutant: a Timeout leaves the loop as well.
Breaks_OnTimeout(o) ==
  \/ Raised(o) = "HTTPError" /\ o.status \in NonRetryable
  \/ Raised(o) = "Timeout"
  \/ ~IsRequestException(Raised(o))

\* The failed attempt leaves the for loop by break: a RequestException that
\* carries a response (the HTTPError of raise_for_status) with a status
\* that is not retried, or an exception of any other class.
Breaks(o) ==
  \/ Raised(o) = "HTTPError" /\ o.status \in NonRetryable
  \/ ~IsRequestException(Raised(o))

\* Mutant: range(self.max_retries), one iteration short.
Attempts_OneShort == IF config.max_retries = 0 THEN 1 ELSE config.max_retries

\* for attempt in range(self.max_retries + 1)
Attempts == config.max_retries + 1

\* Mutant: the exponent is the attempt number itself.
Backoff_Doubled(attempt) == config.retry_delay * (2 ^ attempt)

\* delay = self.retry_delay * (2 ** (attempt - 1)), attempt counted from 0
Backoff(attempt) == config.retry_delay * (2 ^ (attempt - 1))

\* str(last_exception): the status for an HTTPError, the class otherwise.
ErrorText(o) == [raised |-> Raised(o), status |-> o.status]

\* Mutant: exhaustion is not recorded.
Exhausted_Silent(st, url, o) == st

\* self.stats['errors'].append({...}) after the loop.
Exhausted(st, url, o) ==
  [st EXCEPT !.errors = Append(@, [url |-> url, error |-> ErrorText(o)])]

\* A call of _make_request_with_retry(url) enters the loop.
make_request_with_retry(url) ==
  /\ fetch.phase \in {"idle", "returned"}
  /\ fetch.calls < MaxFetches
  /\ fetch' = [phase |-> "trying", url |-> url, attempt |-> 0, log |-> <<>>,
               sleeps |-> <<>>, returned |-> "-",
               errors0 |-> Len(stats.errors), calls |-> fetch.calls + 1]
  /\ UNCHANGED <<vars, config, stats, site, crawl, results>>

\* One iteration of the for loop, the transport doing o: the sleep before a
\* retry, the request, then the return of the response, the next
\* iteration, or (break, or the range is used up) the code after the loop.
FetchAttempt(o) ==
  /\ fetch.phase = "trying"
  /\ LET a == fetch.attempt
         tried == [fetch EXCEPT
                     !.log = Append(@, o),
                     !.sleeps = IF a > 0 THEN Append(@, <<a + 1, Backoff(a)>>) ELSE @]
     IN  IF Raised(o) = "-"
           THEN /\ fetch' = [tried EXCEPT !.phase = "returned", !.returned = "response"]
                /\ UNCHANGED stats
         ELSE IF ~Breaks(o) /\ a + 1 < Attempts
           THEN /\ fetch' = [tried EXCEPT !.attempt = a + 1]
                /\ UNCHANGED stats
         ELSE /\ fetch' = [tried EXCEPT !.phase = "returned", !.returned = "None"]
              /\ stats' = Exhausted(stats, fetch.url, o)
  /\ UNCHANGED <<vars, config, site, crawl, results>>

FetchInit ==
  /\ ServiceAtRest
  /\ \E cfg \in Configs : BiwaseCrawler(cfg)
  /\ site = EmptySite

FetchNext ==
  \/ \E url \in FetchUrls : make_request_with_retry(url)
  \/ \E o \in Transport : FetchAttempt(o)

FetchSpec == FetchInit /\ [][FetchNext]_allvars

FetchTypeOK ==
  /\ config \in Configs
  /\ fetch.phase \in {"idle", "trying", "returned"}
  /\ fetch.url \in FetchUrls
  /\ fetch.attempt \in 0..MaxRetries
  /\ fetch.log \in Seq(Transport)
  /\ fetch.returned \in {"-", "response", "None"}
  /\ fetch.calls \in 0..MaxFetches
  /\ Len(stats.errors) <= MaxFetches

(* ============================ crawl_simple ============================ *)
\* In a crawl run a call of the fetcher is one step: it returns a response
\* (ok) or, after its last attempt, records the failure and returns None.
Unreachable == [raises |-> "ConnectionError", status |-> 0]

Fetched(st, url, ok) == IF ok THEN st ELSE Exhausted(st, url, Unreachable)

\* get_soup: the parsed page, or None when the fetch failed.  What the
\* three link extractors return:
\* Mutant: the pagination links are returned although the fetch failed.
PaginationLinks_Blind(ok) == site.pages

\* get_pagination_links: [] when the base page could not be fetched.
PaginationLinks(ok) == IF ok THEN site.pages ELSE <<>>

\* get_news_links
NewsLinks(page, ok) == IF ok THEN site.news[page] ELSE <<>>

\* get_pdf_links
PdfLinks(news, ok) == IF ok THEN site.pdfs[news] ELSE <<>>

\* Mutant: the last link of the list is lost.
Dedup_ButLast(list) == SeqToSet(SubSeq(list, 1, Len(list) - 1))

\* set(all_news), set(all_pdfs)
Dedup(list) == SeqToSet(list)

\* list(set(...)): the elements of the set once each, in any order.
Orderings(S) ==
  {q \in [1..Cardinality(S) -> S] : \A x \in S : \E i \in 1..Cardinality(S) : q[i] = x}

\* url.split('/')[-1].split('?')[0] for the document URLs of the website.
LastSegment(url) ==
  CASE url = "/x/doc1.pdf" -> "doc1.pdf"
    [] url = "/y/doc1.pdf" -> "doc1.pdf"
    [] url = "/x/doc2.pdf" -> "doc2.pdf"
    [] OTHER -> ""

\* hashlib.md5(url.encode()).hexdigest()[:8]
Md5Prefix(url) ==
  CASE url = "/x/doc1.pdf" -> "c3cb7aeb"
    [] url = "/y/doc1.pdf" -> "2467a5ea"
    [] url = "/x/doc2.pdf" -> "02a5918b"
    [] OTHER -> "d41d8cd9"

\* _generate_safe_filename: the last path segment, or a name made of the
\* URL's hash when the URL has none.  The segments of the website's URLs have
\* no character to sanitize and end in .pdf.
SafeFilename(url) ==
  IF LastSegment(url) = "" THEN "document_" \o Md5Prefix(url) \o ".pdf"
  ELSE LastSegment(url)

\* What may come of one download_pdf(url):
\*   ok      : the file was written and has bytes
\*   failed  : the fetcher returned None
\*   empty   : the response had no bytes
\*   raised  : an exception inside download_pdf before the file is opened
\*   partial : an exception while the chunks are written
DownloadKinds == {"ok", "failed", "empty", "raised", "partial"}

\* The dict download_pdf returns.
DownloadResult(url, got) ==
  [url |-> url, success |-> (got = "ok"), error |-> got,
   file_path |-> IF got = "ok" THEN SafeFilename(url) ELSE "None"]

\* The file named name holds content.
File(name, content) == [name |-> name, content |-> content]

\* open(file_path, 'wb') creates the file or empties the one that is there.
Written(files, name, content) ==
  {f \in files : f.name # name} \cup {File(name, content)}

\* file_path.unlink(missing_ok=True)
Unlinked(files, name) == {f \in files : f.name # name}

\* Mutant: a download of zero bytes leaves the file it created.
FilesAfter_KeepsEmpty(files, url, got) ==
  CASE got = "ok" -> Written(files, SafeFilename(url), url)
    [] got = "empty" -> Written(files, SafeFilename(url), "partial")
    [] got = "partial" -> Written(files, SafeFilename(url), "partial")
    [] OTHER -> files

\* output_dir after download_pdf(url).
FilesAfter(files, url, got) ==
  CASE got = "ok" -> Written(files, SafeFilename(url), url)
    [] got = "empty" -> Unlinked(Written(files, SafeFilename(url), "partial"),
                                 SafeFilename(url))
    [] got = "partial" -> Written(files, SafeFilename(url), "partial")
    [] OTHER -> files

\* Mutant: only successful downloads are appended.
ResultsAfter_SuccessOnly(rs, r) == IF r.success THEN Append(rs, r) ELSE rs

\* download_results.append(result)
ResultsAfter(rs, r) == Append(rs, r)

\* Mutant: pdfs_found counts the links before deduplication.
PdfsFound_All(all, unique) == Len(all)

\* "pdfs_found": len(unique_pdfs)
PdfsFound(all, unique) == Len(unique)

\* self.stats.copy(): the counters as they are at the return.  The copy is
\* shallow, the errors list is not copied (the snapshot and self.stats
\* share it), so it is not part of the snapshot's value.
StatsCopy(st) ==
  [pages_processed |-> st.pages_processed,
   news_articles_found |-> st.news_articles_found,
   pdfs_found |-> st.pdfs_found, pdfs_downloaded |-> st.pdfs_downloaded]

\* The dict of lines 396-407.
SuccessResult(c, st) ==
  [success |-> TRUE, error |-> FALSE, pages_found |-> c.pages_found,
   pdfs_found |-> PdfsFound(c.all_pdfs, c.unique_pdfs),
   pdfs_downloaded |-> c.downloaded_count, pdf_urls |-> c.unique_pdfs,
   download_results |-> c.download_results, stats |-> StatsCopy(st)]

\* The dict of the except clause, lines 412-423.
FailureResult(c, st) ==
  [success |-> FALSE, error |-> TRUE, pages_found |-> 0, pdfs_found |-> 0,
   pdfs_downloaded |-> 0, pdf_urls |-> <<>>, download_results |-> <<>>,
   stats |-> StatsCopy(st)]

Logged(url, got) == [url |-> url, got |-> got]

\* Mutant: the loops sleep after every second fetch only.
Slept_EverySecond(sleeps, url, i) == IF i % 2 = 0 THEN Append(sleeps, url) ELSE sleeps

\* time.sleep(self.rate_limit_delay), the first statement of iteration i of
\* each of the three for loops; url is what the iteration fetches next.
Slept(sleeps, url, i) == Append(sleeps, url)

\* Mutant: the loop is left before its last element.
LoopDone_Early(i, list) == i >= Len(list)

\* The for loop at position i of list is exhausted.
LoopDone(i, list) == i > Len(list)

\* crawl_simple is called.
crawl_simple ==
  /\ crawl.pc \in {"idle", "done"}
  /\ crawl.runs < MaxRuns
  /\ crawl' = [NoCrawl EXCEPT !.pc = "base", !.runs = crawl.runs + 1,
                               !.files = crawl.files]
  /\ UNCHANGED <<vars, config, stats, fetch, site, results>>

\* crawl_full_pipeline is called, with or without a background_tasks_service:
\* its first statement is the call of crawl_simple.
crawl_full_pipeline(service) ==
  /\ crawl.pc \in {"idle", "done"}
  /\ crawl.runs < MaxRuns
  /\ crawl' = [NoCrawl EXCEPT !.pc = "base", !.runs = crawl.runs + 1,
                               !.files = crawl.files, !.full = TRUE,
                               !.service = service]
  /\ UNCHANGED <<vars, config, stats, fetch, site, results>>

\* pages_num = self.get_pagination_links(); pages_found = len(pages_num)
get_pagination_links(ok) ==
  /\ crawl.pc = "base"
  /\ crawl' = [crawl EXCEPT
                 !.history = Append(@, Logged(BaseUrl, IF ok THEN "ok" ELSE "failed")),
                 !.pages_num = PaginationLinks(ok),
                 !.pages_found = Len(PaginationLinks(ok)),
                 !.pc = "pages"]
  /\ stats' = IF ok THEN [stats EXCEPT !.pages_processed = Len(site.pages)]
              ELSE Fetched(stats, BaseUrl, FALSE)
  /\ UNCHANGED <<vars, config, fetch, site, results>>

\* One iteration of "for page in pages_num".
get_news_links(ok) ==
  /\ crawl.pc = "pages"
  /\ crawl.page_i <= Len(crawl.pages_num)
  /\ LET page == crawl.pages_num[crawl.page_i]
     IN  /\ crawl' = [crawl EXCEPT
                        !.sleeps = Slept(@, page, crawl.page_i),
                        !.history = Append(@, Logged(page, IF ok THEN "ok" ELSE "failed")),
                        !.all_news = @ \o NewsLinks(page, ok),
                        !.page_i = @ + 1]
         /\ stats' = Fetched(stats, page, ok)
  /\ UNCHANGED <<vars, config, fetch, site, results>>

\* unique_news = list(set(all_news)), in the order the set yields.
UniqueNews(order) ==
  /\ crawl.pc = "pages"
  /\ LoopDone(crawl.page_i, crawl.pages_num)
  /\ order \in Orderings(Dedup(crawl.all_news))
  /\ crawl' = [crawl EXCEPT !.unique_news = order, !.pc = "news"]
  /\ stats' = [stats EXCEPT !.news_articles_found = Len(order)]
  /\ UNCHANGED <<vars, config, fetch, site, results>>

\* One iteration of "for news_link in unique_news".
get_pdf_links(ok) ==
  /\ crawl.pc = "news"
  /\ crawl.news_i <= Len(crawl.unique_news)
  /\ LET news == crawl.unique_news[crawl.news_i]
     IN  /\ crawl' = [crawl EXCEPT
                        !.sleeps = Slept(@, news, crawl.news_i),
                        !.history = Append(@, Logged(news, IF ok THEN "ok" ELSE "failed")),
                        !.all_pdfs = @ \o PdfLinks(news, ok),
                        !.news_i = @ + 1]
         /\ stats' = Fetched(stats, news, ok)
  /\ UNCHANGED <<vars, config, fetch, site, results>>

\* unique_pdfs = list(set(all_pdfs))
UniquePdfs(order) ==
  /\ crawl.pc = "news"
  /\ LoopDone(crawl.news_i, crawl.unique_news)
  /\ order \in Orderings(Dedup(crawl.all_pdfs))
  /\ crawl' = [crawl EXCEPT !.unique_pdfs = order, !.pc = "download"]
  /\ stats' = [stats EXCEPT !.pdfs_found = Len(order)]
  /\ UNCHANGED <<vars, config, fetch, site, results>>

\* One iteration of "for pdf_url in unique_pdfs".
download_pdf(got) ==
  /\ crawl.pc = "download"
  /\ crawl.pdf_i <= Len(crawl.unique_pdfs)
  /\ LET pdf_url == crawl.unique_pdfs[crawl.pdf_i]
         result == DownloadResult(pdf_url, got)
     IN  /\ crawl' = [crawl EXCEPT
                        !.sleeps = Slept(@, pdf_url, crawl.pdf_i),
                        !.history = Append(@, Logged(pdf_url, got)),
                        !.download_results = ResultsAfter(@, result),
                        !.downloaded_count = IF result.success THEN @ + 1 ELSE @,
                        !.files = FilesAfter(@, pdf_url, got),
                        !.pdf_i = @ + 1]
         /\ stats' = IF result.success
                       THEN [stats EXCEPT !.pdfs_downloaded = @ + 1]
                       ELSE Fetched(stats, pdf_url, got # "failed")
  /\ UNCHANGED <<vars, config, fetch, site, results>>

\* The loops are over: the return of lines 396-407, to the caller of
\* crawl_simple.
CrawlReturns ==
  /\ crawl.pc = "download"
  /\ LoopDone(crawl.pdf_i, crawl.unique_pdfs)
  /\ ~crawl.full
  /\ crawl' = [crawl EXCEPT !.pc = "done"]
  /\ results' = Append(results, SuccessResult(crawl, stats))
  /\ UNCHANGED <<vars, config, stats, fetch, site>>

\* f"crawl_process_{hashlib.md5(download_result['url'].encode()).hexdigest()[:8]}"
TaskId(url) == "crawl_process_" \o Md5Prefix(url)

\* The descriptor appended for one successful download.
ProcessingTask(r) ==
  [task_id |-> TaskId(r.url),
   document_data |-> [filename |-> r.file_path, file_path |-> r.file_path,
                      source_url |-> r.url],
   status |-> "queued"]

\* The loop over crawl_result["download_results"]: a descriptor for each
\* successful download.
RECURSIVE Descriptors(_)
Descriptors(rs) ==
  IF rs = <<>> THEN <<>>
  ELSE (IF Head(rs).success THEN <<ProcessingTask(Head(rs))>> ELSE <<>>)
         \o Descriptors(Tail(rs))

\* processing_tasks: the loop runs only "if background_tasks_service".
ProcessingTasks(service, rs) == IF service THEN Descriptors(rs) ELSE <<>>

\* {**crawl_result, "crawl_type": "full_pipeline", "processing_tasks": ...}
FullResult(c, st) ==
  SuccessResult(c, st)
    @@ [processing_tasks |-> ProcessingTasks(c.service, c.download_results)]

\* crawl_simple returned success to crawl_full_pipeline, which queues the
\* processing descriptors and returns.
QueueProcessing ==
  /\ crawl.pc = "download"
  /\ LoopDone(crawl.pdf_i, crawl.unique_pdfs)
  /\ crawl.full
  /\ crawl' = [crawl EXCEPT !.pc = "done"]
  /\ results' = Append(results, FullResult(crawl, stats))
  /\ UNCHANGED <<vars, config, stats, fetch, site>>

\* An exception escapes a statement of the try block (time.sleep raises
\* ValueError for a negative rate_limit_delay, for one): the except clause
\* of lines 409-423 returns, and crawl_full_pipeline hands that result on
\* ("if not crawl_result['success']: return crawl_result").
CrawlRaises ==
  /\ crawl.pc \in {"base", "pages", "news", "download"}
  /\ crawl' = [crawl EXCEPT !.pc = "done", !.raised = TRUE]
  /\ results' = Append(results, FailureResult(crawl, stats))
  /\ UNCHANGED <<vars, config, stats, fetch, site>>

CrawlInit ==
  /\ ServiceAtRest
  /\ BiwaseCrawler(DefaultConfig)
  /\ site \in Sites

CrawlNext ==
  \/ crawl_simple
  \/ \E service \in BOOLEAN : crawl_full_pipeline(service)
  \/ \E ok \in BOOLEAN : get_pagination_links(ok)
  \/ \E ok \in BOOLEAN : get_news_links(ok)
  \/ \E order \in Orderings(Dedup(crawl.all_news)) : UniqueNews(order)
  \/ \E ok \in BOOLEAN : get_pdf_links(ok)
  \/ \E order \in Orderings(Dedup(crawl.all_pdfs)) : UniquePdfs(order)
  \/ \E got \in DownloadKinds : download_pdf(got)
  \/ CrawlReturns
  \/ QueueProcessing
  \/ CrawlRaises

CrawlSpec == CrawlInit /\ [][CrawlNext]_allvars

(* ------------------- runs on one crawler, one after another ---------- *)
\* Websites with one pagination page and one article.
SmallSites ==
  {w \in Sites : w.pages = <<"p1">> /\ w.news = [p \in PageUrls |-> <<"a1">>]}

\* crawl_simple is called on a crawler that may have run before (the one
\* get_crawler_service() hands out, for one): self.stats and the output
\* directory are as the earlier run left them.
crawl_simple_again ==
  /\ crawl.pc \in {"idle", "done"}
  /\ crawl.runs < MaxReruns
  /\ crawl' = [NoCrawl EXCEPT !.pc = "base", !.runs = crawl.runs + 1,
                               !.files = crawl.files]
  /\ UNCHANGED <<vars, config, stats, fetch, site, results>>

\* "stats": self.stats.copy() is a shallow copy: the errors entry of a
\* returned snapshot is the list self.stats['errors'] itself.
SnapshotErrors(st) == st.errors

RerunInit ==
  /\ ServiceAtRest
  /\ BiwaseCrawler(DefaultConfig)
  /\ site \in SmallSites

RerunNext ==
  \/ crawl_simple_again
  \/ \E ok \in BOOLEAN : get_pagination_links(ok)
  \/ \E ok \in BOOLEAN : get_news_links(ok)
  \/ \E order \in Orderings(Dedup(crawl.all_news)) : UniqueNews(order)
  \/ \E ok \in BOOLEAN : get_pdf_links(ok)
  \/ \E order \in Orderings(Dedup(crawl.all_pdfs)) : UniquePdfs(order)
  \/ \E got \in DownloadKinds : download_pdf(got)
  \/ CrawlReturns
  \/ CrawlRaises

RerunSpec == RerunInit /\ [][RerunNext]_allvars

(* ------------------- a crawl run under its crawl task ------------------ *)
\* _execute_simple_crawl_background is between its registration of the
\* task (line 223) and the return of crawler.crawl_simple() (line 229).
RunnerCrawling == \E id \in Ids : Task(id).kind = "crawl" /\ Task(id).work = "crawling"

\* result_dict.get("success", False) of the result crawl_simple returned.
RunnerSuccess == results[Len(results)].success

\* One crawl operation is started; its runner calls crawl_simple.
RunnerStarts(id) ==
  /\ \A j \in Ids : Task(j).kind # "crawl"
  /\ start_crawl_operation(id)

\* crawl_simple returned to the runner, which records the outcome.
RunnerFinish(id) ==
  /\ crawl.pc = "done"
  /\ CrawlFinish(id, RunnerSuccess)

RunnerInit ==
  /\ ServiceAtRest
  /\ BiwaseCrawler(DefaultConfig)
  /\ site \in SmallSites

RunnerNext ==
  \/ \E id \in Ids : RunnerStarts(id)
  \/ \E id \in Ids : CrawlRegister(id)
  \/ RunnerCrawling /\ crawl_simple
  \/ RunnerCrawling /\ \E ok \in BOOLEAN : get_pagination_links(ok)
  \/ RunnerCrawling /\ \E ok \in BOOLEAN : get_news_links(ok)
  \/ RunnerCrawling /\ \E order \in Orderings(Dedup(crawl.all_news)) : UniqueNews(order)
  \/ RunnerCrawling /\ \E ok \in BOOLEAN : get_pdf_links(ok)
  \/ RunnerCrawling /\ \E order \in Orderings(Dedup(crawl.all_pdfs)) : UniquePdfs(order)
  \/ RunnerCrawling /\ \E got \in DownloadKinds : download_pdf(got)
  \/ RunnerCrawling /\ CrawlReturns
  \/ RunnerCrawling /\ CrawlRaises
  \/ \E id \in Ids : RunnerFinish(id)
  \/ \E id \in Ids : start_pdf_processing_task(id)
  \/ \E id \in Ids : cancel_task(id)
  \/ \E id \in Ids : RunFirstStep(id)
  \/ \E id \in Ids : RunCancelled(id)
  \/ \E id \in Ids : RunResume(id)
  \/ \E id \in Ids : PdfStart(id)
  \/ \E id \in Ids, ok \in BOOLEAN : PdfProcessed(id, ok)
  \/ \E id \in Ids, ok \in BOOLEAN, points \in BOOLEAN : PdfEmbedded(id, ok, points)
  \/ \E id \in Ids, ok \in BOOLEAN : PdfStored(id, ok)

RunnerSpec == RunnerInit /\ [][RunnerNext]_allvars

CrawlTypeOK ==
  /\ site \in Sites
  /\ crawl.pc \in {"idle", "base", "pages", "news", "download", "done"}
  /\ crawl.runs \in 0..MaxRuns
  /\ Len(results) <= crawl.runs
  /\ crawl.pc = "done" => Len(results) = crawl.runs
  /\ SeqToSet(crawl.unique_news) \subseteq NewsUrls
  /\ SeqToSet(crawl.unique_pdfs) \subseteq PdfUrls
  /\ crawl.downloaded_count <= Len(crawl.download_results)

(* ============================ properties ============================== *)
Completed == SeqToSet(completed_tasks)

\* Every record of completed_tasks carries a completion stamp, and a key
\* occurs once in the dict.
CompletedStamped ==
  /\ \A id \in Completed : Task(id).completed_at # <<>>
  /\ Cardinality(Completed) = Len(completed_tasks)

\* The instant (on the utcnow clock) a record of completed_tasks completed:
\* a crawl runner stamps with datetime.now(), tz ahead of utcnow.
CompletedUtc(id) ==
  IF Task(id).kind = "crawl" THEN Task(id).completed_at[1] - tz
  ELSE Task(id).completed_at[1]

C2_MigratedWhenOver ==
  \A id \in Ids :
    (Task(id).kind = "create" /\ Task(id).run = "done"
       /\ Task(id).work # "running")
      => (id \notin active_tasks /\ (id \in Completed \/ id \in evicted))

\* C3: a terminal status never changes again.
C3_TerminalIsFinal ==
  [][\A id \in Ids :
       Task(id).status \in Terminal => Task(id).status' = Task(id).status]_vars

\* C4: once cancel() has taken effect on a task (its event is set), the
\* task shows cancelled in every state.
C4_CancelledStays ==
  \A id \in Ids : Task(id).cancel_event => Task(id).status = CANCELLED

\* C5: a cancelled task has no result, and no step changes the result or
\* the progress of a task that is cancelled.
C5_CancelledFrozen ==
  [][\A id \in Ids :
       Task(id).status = CANCELLED =>
         /\ ~Task(id).result
         /\ Task(id).result' = Task(id).result
         /\ Task(id).progress' = Task(id).progress]_vars

\* C6: a create_task call made while active_tasks holds max_active_tasks
\* records or more returns None and changes no task and neither store.
C6_Rejection ==
  [][(Cardinality(active_tasks) >= max_active_tasks /\ outcome' \in {"None", "id"})
       => /\ outcome' = "None"
          /\ tasks' = tasks
          /\ active_tasks' = active_tasks
          /\ completed_tasks' = completed_tasks
          /\ next_id' = next_id]_vars

\* create_task has just returned None on a full active_tasks.
C6_Witness ==
  /\ outcome = "None"
  /\ Cardinality(active_tasks) >= max_active_tasks

\* C7: while only create_task has registered tasks and no more than
\* max_active_tasks of them were admitted, the next call is admitted unless
\* all of them are still in progress: as soon as one has finished its work
\* a slot is free.
C7_SlotFrees ==
  (/\ \A id \in Ids : Task(id).kind \in {"none", "create"}
   /\ next_id - 1 <= max_active_tasks
   /\ \/ next_id - 1 < max_active_tasks
      \/ \E id \in Ids : /\ Task(id).kind = "create"
                         /\ Task(id).work \in {"returned", "raised"}
                         /\ Task(id).run = "done")
    => check_task_limits

\* C8: active_tasks never holds more than max_active_tasks records.
C8_ActiveBounded == Cardinality(active_tasks) <= max_active_tasks

\* C9: records of active_tasks are pending or running, records of
\* completed_tasks are terminal.
C9_StoreStatus ==
  /\ \A id \in active_tasks : Task(id).status \in {PENDING, RUNNING}
  /\ \A id \in Completed : Task(id).status \in Terminal

\* C10: right after a sweep, completed_tasks holds at most
\* max_completed_tasks records and none that completed more than
\* max_task_age ago.
C10_AfterSweep ==
  outcome = "swept" =>
    /\ Len(completed_tasks) <= max_completed_tasks
    /\ \A id \in Completed : now - CompletedUtc(id) <= max_task_age

FetchReturned == fetch.phase = "returned"

\* Number of requests the call has made.
AttemptCount == Len(fetch.log)

\* An attempt that fails in a way the fetcher retries: a transport error, a
\* timeout, or an error status that is none of 400, 401, 403, 404, 410.
RetriedFailure(o) ==
  \/ o.raises \in {"ConnectionError", "Timeout"}
  \/ /\ o.raises = "-"
     /\ o.status >= 400
     /\ o.status \notin {400, 401, 403, 404, 410}

\* C12: a fetch with max_retries = N whose every attempt met a failing
\* transport (a failure of the retried kind, attempt after attempt) has
\* made exactly N + 1 requests and appended exactly one entry to
\* stats.errors when it returns.
C12_RetryCeiling ==
  (FetchReturned /\ \A i \in 1..AttemptCount : RetriedFailure(fetch.log[i]))
    => /\ AttemptCount = config.max_retries + 1
       /\ Len(stats.errors) = fetch.errors0 + 1

\* A fetch with max_retries >= 1 has returned after failing on every attempt.
C12_Witness ==
  /\ FetchReturned
  /\ config.max_retries >= 1
  /\ AttemptCount >= 2
  /\ \A i \in 1..AttemptCount : RetriedFailure(fetch.log[i])

\* C13: an attempt answered with status 400, 401, 403, 404 or 410 is the
\* last attempt of its fetch, whatever max_retries is: the fetch has
\* returned with it (a 404 on attempt 1 leaves the count at 1).
C13_PermanentStops ==
  \A i \in 1..AttemptCount :
    (fetch.log[i].raises = "-" /\ fetch.log[i].status \in {400, 401, 403, 404, 410})
      => (i = AttemptCount /\ FetchReturned)

\* A fetch allowed three retries returned after a 404 on its first attempt.
C13_Witness ==
  /\ FetchReturned
  /\ config.max_retries = MaxRetries
  /\ AttemptCount = 1
  /\ fetch.log[1].status = 404

\* C14: the sleeps of one fetch are, in order, those before attempts 2, 3,
\* ...: none precedes attempt 1, one precedes each later attempt, and the
\* one before attempt k lasts retry_delay * 2^(k-2); with retry_delay = 1
\* they are 1, 2 and 4 before attempts 2, 3 and 4.
C14_Backoff ==
  /\ Len(fetch.sleeps) = (IF AttemptCount = 0 THEN 0 ELSE AttemptCount - 1)
  /\ \A j \in 1..Len(fetch.sleeps) :
       fetch.sleeps[j] = <<j + 1, config.retry_delay * (2 ^ ((j + 1) - 2))>>
  /\ (config.retry_delay = 1 /\ Len(fetch.sleeps) >= 3)
       => /\ fetch.sleeps[1] = <<2, 1>>
          /\ fetch.sleeps[2] = <<3, 2>>
          /\ fetch.sleeps[3] = <<4, 4>>

\* A fetch with retry_delay = 1 has made its fourth attempt.
C14_Witness ==
  /\ config.retry_delay = 1
  /\ AttemptCount = 4
  /\ Len(fetch.sleeps) = 3

\* C15: a fetch always returns to its caller, with the response or with
\* the failure marker; a last attempt that failed in any way (connection
\* error, timeout, error status, unexpected exception) gives the marker;
\* the marker comes with exactly one new entry of stats.errors and a
\* response with none; no other field of the stats changes.
C15_FailureMarker ==
  FetchReturned =>
    /\ fetch.returned \in {"response", "None"}
    /\ Raised(fetch.log[AttemptCount]) # "-" => fetch.returned = "None"
    /\ fetch.returned = "None" => Len(stats.errors) = fetch.errors0 + 1
    /\ fetch.returned = "response" => Len(stats.errors) = fetch.errors0
    /\ [stats EXCEPT !.errors = <<>>] = NewStats

\* A fetch that followed a successful one returned the marker after an
\* unexpected exception, and the entry is in stats.errors.
C15_Witness ==
  /\ FetchReturned
  /\ fetch.calls = 2
  /\ fetch.errors0 = 0
  /\ fetch.returned = "None"
  /\ fetch.log[AttemptCount].raises = "Exception"
  /\ Len(stats.errors) = 1
  /\ stats.errors[1].url = fetch.url

\* C16: an attempt that failed with a transport error, a timeout or a
\* server failure other than 400/401/403/404/410, and that was not attempt
\* max_retries + 1, is followed by another attempt: either the next request
\* was made, or the fetch is still in its loop about to make it.
C16_Retried ==
  \A i \in 1..AttemptCount :
    (RetriedFailure(fetch.log[i]) /\ i < config.max_retries + 1)
      => \/ AttemptCount > i
         \/ fetch.phase = "trying" /\ fetch.attempt = i

\* A timeout, a connection error and a 500 were each followed by an attempt.
C16_Witness ==
  /\ AttemptCount = 4
  /\ fetch.log[1].raises = "Timeout"
  /\ fetch.log[2].raises = "ConnectionError"
  /\ fetch.log[3].status = 500

(* ----------------------- properties of crawl_simple -------------------- *)
\* The run has returned; its result is the last one returned.
RunOver == crawl.pc = "done"

LastResult == results[Len(results)]

\* The calls of the fetcher the run made for URLs of U, in order.
HistoryOf(U) == SelectSeq(crawl.history, LAMBDA h : h.url \in U)

\* The URLs the run fetched with success.
FetchedOk == {crawl.history[i].url : i \in {j \in 1..Len(crawl.history) : crawl.history[j].got = "ok"}}

\* The articles linked from the pagination pages the run could read, and
\* the documents linked from the articles it could read.
ArticlesDiscovered == UNION {SeqToSet(site.news[p]) : p \in PageUrls \cap FetchedOk}

DocumentsDiscovered == UNION {SeqToSet(site.pdfs[a]) : a \in NewsUrls \cap FetchedOk}

\* C17: the result of a run that returned normally reports as pages_found
\* the number of pagination links of the base page it read, as pdfs_found
\* the number of distinct document URLs discovered across all articles,
\* and download_results holds exactly one outcome per distinct document
\* URL (its length is pdfs_found).
C17_Counts ==
  (RunOver /\ ~crawl.raised) =>
    LET r == LastResult
    IN  /\ r.pages_found = (IF BaseUrl \in FetchedOk THEN Len(site.pages) ELSE 0)
        /\ r.pdfs_found = Cardinality(DocumentsDiscovered)
        /\ Len(r.download_results) = r.pdfs_found
        /\ {r.download_results[i].url : i \in 1..Len(r.download_results)}
             = DocumentsDiscovered

\* A run over two pages and two articles found four document links, three
\* of them distinct.
C17_Witness ==
  /\ RunOver
  /\ ~crawl.raised
  /\ LastResult.pages_found = 2
  /\ Len(crawl.all_pdfs) = 4
  /\ LastResult.pdfs_found = 3

\* C18: a run in which fetches of pagination pages, of articles or
\* downloads failed, and that met no unexpected exception, returns
\* success = true; nothing was skipped (every pagination link was fetched,
\* every discovered article once, every discovered document once) and
\* each download, failed or not, has its one outcome in download_results,
\* with success = false for a failed one.
C18_PartialFailures ==
  (RunOver /\ ~crawl.raised) =>
    LET r == LastResult
        paged == HistoryOf(PageUrls)
    IN  /\ r.success
        /\ BaseUrl \in FetchedOk =>
             /\ Len(paged) = Len(site.pages)
             /\ \A i \in 1..Len(paged) : paged[i].url = site.pages[i]
        /\ \A a \in ArticlesDiscovered : Len(HistoryOf({a})) = 1
        /\ \A d \in DocumentsDiscovered :
             /\ Len(HistoryOf({d})) = 1
             /\ Cardinality({j \in 1..Len(r.download_results) :
                               /\ r.download_results[j].url = d
                               /\ r.download_results[j].success
                                    = (HistoryOf({d})[1].got = "ok")}) = 1
        /\ r.pdfs_downloaded
             = Cardinality({d \in DocumentsDiscovered : HistoryOf({d})[1].got = "ok"})

\* A run lost a pagination page, an article and a download, and still
\* downloaded another document and returned.
C18_Witness ==
  /\ RunOver
  /\ ~crawl.raised
  /\ \E p \in PageUrls, a \in NewsUrls, d \in PdfUrls :
       /\ \E i \in 1..Len(crawl.history) : crawl.history[i] = Logged(p, "failed")
       /\ \E i \in 1..Len(crawl.history) : crawl.history[i] = Logged(a, "failed")
       /\ \E i \in 1..Len(crawl.history) :
            crawl.history[i].url = d /\ crawl.history[i].got \in {"failed", "empty", "raised"}
  /\ LastResult.pdfs_downloaded >= 1

\* C19: when the fetch of the base URL failed the run makes no further
\* request, and (no unexpected exception met) it returns success = true
\* with pages_found, pdfs_found and pdfs_downloaded 0 and an empty
\* download_results.
C19_BaseFailure ==
  (Len(crawl.history) >= 1 /\ crawl.history[1] = Logged(BaseUrl, "failed")) =>
    /\ Len(crawl.history) = 1
    /\ (RunOver /\ ~crawl.raised) =>
         /\ LastResult.success
         /\ LastResult.pages_found = 0
         /\ LastResult.pdfs_found = 0
         /\ LastResult.pdfs_downloaded = 0
         /\ LastResult.download_results = <<>>

\* A run on a site with pagination links returned after the base fetch
\* failed.
C19_Witness ==
  /\ RunOver
  /\ ~crawl.raised
  /\ site.pages # <<>>
  /\ crawl.history = <<Logged(BaseUrl, "failed")>>

\* C20: a run that met an unexpected exception returns a result with
\* success = false and the error, whose pages_found, pdfs_found and
\* pdfs_downloaded are the counts the run had reached when it failed.
C20_CountsSoFar ==
  (RunOver /\ crawl.raised) =>
    /\ ~LastResult.success
    /\ LastResult.error
    /\ LastResult.pages_found = crawl.pages_found
    /\ LastResult.pdfs_found = Len(crawl.unique_pdfs)
    /\ LastResult.pdfs_downloaded = crawl.downloaded_count

\* The outcomes of the run with success = true.
Successes(rs) == SelectSeq(rs, LAMBDA r : r.success)

\* A run of crawl_full_pipeline has returned the result it builds itself.
FullRunOver == RunOver /\ crawl.full /\ ~crawl.raised

\* C21: the processing_tasks list a run of crawl_full_pipeline returns has
\* exactly one descriptor per successful download of the run, in order, and
\* the id of each descriptor is the one its source URL determines.
C21_OnePerSuccess ==
  FullRunOver =>
    LET tasks_ == LastResult.processing_tasks
        ok == Successes(LastResult.download_results)
    IN  /\ Len(tasks_) = Len(ok)
        /\ \A i \in 1..Len(tasks_) :
              /\ tasks_[i].document_data.source_url = ok[i].url
              /\ tasks_[i].task_id = TaskId(ok[i].url)

\* The step is one call of download_pdf.
DownloadStep ==
  /\ crawl.pc = "download"
  /\ crawl'.pc = "download"
  /\ crawl'.pdf_i = crawl.pdf_i + 1

\* What the download of the step met, and the outcome it returned.
LastDownload == crawl.history[Len(crawl.history)]
LastOutcome == crawl.download_results[Len(crawl.download_results)]

\* A file of the given name is in the output directory.
Exists(files, name) == \E f \in files : f.name = name

\* C22: a download whose fetch fails leaves the output directory as it was,
\* a download that receives zero bytes leaves no file at its target path, and
\* in both cases the outcome has success = false and no file_path.
C22_FailedDownload ==
  [][DownloadStep /\ LastDownload'.got \in {"failed", "empty"} =>
       /\ ~LastOutcome'.success
       /\ LastOutcome'.file_path = "None"
       /\ LastOutcome'.url = LastDownload'.url
       /\ LastDownload'.got = "failed" => crawl'.files = crawl.files
       /\ LastDownload'.got = "empty" =>
            ~Exists(crawl'.files, SafeFilename(LastDownload'.url))]_allvars

\* A download of zero bytes has followed a failed fetch of another document.
C22_Witness ==
  /\ crawl.pc = "download"
  /\ Len(crawl.download_results) = 2
  /\ crawl.history[Len(crawl.history) - 1].got = "failed"
  /\ LastDownload.got = "empty"
  /\ ~LastOutcome.success

\* C23: when a run is over, the output directory holds exactly one file per
\* successful outcome of the run, and the file each successful outcome
\* names exists and holds the bytes of that outcome's URL.
C23_OneFilePerSuccess ==
  RunOver /\ ~crawl.raised =>
    LET ok == Successes(crawl.download_results)
    IN  /\ Cardinality(crawl.files) = Len(ok)
        /\ \A i \in 1..Len(ok) : File(ok[i].file_path, ok[i].url) \in crawl.files

\* The rearrangements of a list.
Rearranged(list) ==
  {[i \in 1..Len(list) |-> list[f[i]]] : f \in Permutations(1..Len(list))}

\* A list without repetitions.
NoRepeats(list) == \A i, j \in 1..Len(list) : list[i] = list[j] => i = j

\* The links found are deduplicated the same way in whatever order they
\* were found, deduplicating the result again changes nothing, and the list
\* handed on holds each link found exactly once.
DedupOf(all, unique, handed) ==
  /\ \A other \in Rearranged(all) : Dedup(other) = Dedup(all)
  /\ \A order \in Orderings(Dedup(all)) : Dedup(order) = Dedup(all)
  /\ handed => /\ SeqToSet(unique) = SeqToSet(all)
               /\ NoRepeats(unique)
               /\ Dedup(unique) = SeqToSet(unique)

\* C30: deduplication of the discovered article links and document links is
\* idempotent and independent of the order of the list.
C30_Dedup ==
  /\ DedupOf(crawl.all_news, crawl.unique_news, crawl.pc \in {"news", "download"})
  /\ DedupOf(crawl.all_pdfs, crawl.unique_pdfs, crawl.pc = "download")

\* Four document links were found, one of them twice, and handed on.
C30_Witness ==
  /\ crawl.pc = "download"
  /\ Len(crawl.all_pdfs) = 4
  /\ Len(crawl.unique_pdfs) = 3
  /\ crawl.all_pdfs[2] = crawl.all_pdfs[3]

\* The work of the task has finished, no cancellation has been requested so
\* far, and _run_with_cancellation has not yet resumed from asyncio.wait.
FinishedFirst(id) ==
  /\ Task(id).run = "waiting"
  /\ Task(id).work \in {"returned", "raised"}
  /\ ~Task(id).cancel_event

\* C24: when the work of a running task finishes before any cancellation,
\* the terminal state the task takes is completed with the result set if
\* the work returned and failed with the error set if it raised, and the
\* step that records it leaves every other task and both stores alone.
C24_OutcomeDecides ==
  [][\A id \in Ids :
       FinishedFirst(id) /\ tasks'[id].status \in Terminal =>
         /\ Task(id).work = "returned" =>
              tasks'[id].status = COMPLETED /\ tasks'[id].result
         /\ Task(id).work = "raised" =>
              tasks'[id].status = FAILED /\ tasks'[id].error
         /\ \A other \in Ids \ {id} : tasks'[other] = tasks[other]
         /\ active_tasks' \ {id} = active_tasks \ {id}
         /\ SeqToSet(completed_tasks') \ {id} = SeqToSet(completed_tasks) \ {id}]_allvars

\* C27: cancel_task(id) returns True exactly when id is in active_tasks with
\* status pending or running, and then the task is cancelled; otherwise
\* (an id never handed out, one found only in completed_tasks, a task
\* already terminal) it returns False and changes no task and neither store.
C27_CancelTask ==
  [][\A id \in Ids :
       cancel_task(id) =>
         /\ outcome' \in {"True", "False"}
         /\ outcome' = "True" <=>
              (id \in active_tasks /\ Task(id).status \in {PENDING, RUNNING})
         /\ outcome' = "True" =>
              /\ tasks'[id].status = CANCELLED
              /\ tasks'[id].cancel_event
              /\ \A other \in Ids \ {id} : tasks'[other] = tasks[other]
         /\ outcome' = "False" => tasks' = tasks
         /\ active_tasks' = active_tasks
         /\ completed_tasks' = completed_tasks]_allvars

\* cancel_task has just returned False while one task is cancelled in
\* active_tasks, another sits in completed_tasks only, and no task is
\* pending or running.
C27_Witness ==
  /\ outcome = "False"
  /\ \E id \in active_tasks : Task(id).status = CANCELLED /\ Task(id).cancel_event
  /\ \E id \in Completed : id \notin active_tasks
  /\ \A id \in Ids : Task(id).status \in Terminal

\* The step is the cancel loop of shutdown().
CancelLoopStep == lifecycle.phase = "stopping" /\ lifecycle'.phase = "settling"

\* C25: cancel() on a task whose status is completed, failed or cancelled
\* changes nothing of the task: status, completed_at, result, error, progress
\* and the cancellation signal stay as they were.
C25_CancelTerminal ==
  [][CancelLoopStep =>
       \A id \in active_tasks :
         Task(id).status \in Terminal =>
           /\ tasks'[id] = Task(id)
           /\ tasks'[id].cancel_event = is_cancelled(id)]_allvars

\* The cancel loop of shutdown() has met a completed, a failed or a
\* cancelled record in active_tasks whose cancellation signal was not set.
C25_Witness ==
  /\ lifecycle.phase = "settling"
  /\ outcome = "-"
  /\ \E id \in active_tasks :
       /\ Task(id).status \in {COMPLETED, FAILED}
       /\ ~is_cancelled(id)
       /\ Task(id).run = "done"

\* C28: once shutdown() has returned, every task that was pending or running
\* in active_tasks when it was called has status cancelled, and the periodic
\* cleanup loop runs no more.
C28_Shutdown ==
  lifecycle.phase = "down" =>
    /\ \A id \in lifecycle.targets : Task(id).status = CANCELLED
    /\ ~lifecycle.loop

\* C26: the progress of every task is within [0, 100] after every step:
\* update_progress(p) stores max(0, min(100, p)), and the other writers (the
\* PDF pipeline, the crawl runners) store values of that range.
C26_ProgressRange ==
  [][/\ \A id \in Ids : tasks'[id].progress >= 0 /\ tasks'[id].progress <= 100
     /\ \A id \in Ids, p \in ProgressInputs :
          UpdateProgress(id, p) =>
            tasks'[id].progress = (IF p < 0 THEN 0 ELSE IF p > 100 THEN 100 ELSE p)]_allvars

\* update_progress has just been called with a value below the range on a
\* task the PDF pipeline had brought to 50, while another task is at 100.
C26_Witness ==
  /\ outcome = "progress"
  /\ \E id \in Ids : Task(id).work = "embed" /\ Task(id).progress = 0
  /\ \E id \in Ids : Task(id).progress = 100

\* C29: the id create_task registers a new task under is the id of no task
\* of active_tasks or completed_tasks, so no record is replaced or hidden.
C29_IdUnused ==
  [][\A id \in Ids :
       create_task_any(id) /\ outcome' = "id" =>
         /\ id \notin active_tasks
         /\ id \notin Completed]_allvars

\* The stage a fetch belongs to: 0 the base page, 1 a pagination page,
\* 2 an article page, 3 a document download.
Stage(url) ==
  IF url = BaseUrl THEN 0
  ELSE IF url \in PageUrls THEN 1
  ELSE IF url \in NewsUrls THEN 2
  ELSE 3

\* The fetches of stage n the run has made so far.
FetchesOf(n) == SelectSeq(crawl.history, LAMBDA h : Stage(h.url) = n)

\* C34: in a run the base page is fetched first and once, no fetch of a
\* stage follows a fetch of a later stage, a stage is begun only when the
\* stage before it has fetched all it had to fetch, and the result is
\* produced only when every document has been attempted.
C34_StageOrder ==
  /\ \A i, j \in 1..Len(crawl.history) :
       i < j => /\ Stage(crawl.history[i].url) <= Stage(crawl.history[j].url)
                /\ Stage(crawl.history[j].url) > 0
  /\ crawl.history # <<>> => crawl.history[1].url = BaseUrl
  /\ FetchesOf(2) # <<>> => Len(FetchesOf(1)) = Len(crawl.pages_num)
  /\ FetchesOf(3) # <<>> => Len(FetchesOf(2)) = Len(crawl.unique_news)
  /\ Len(results) = crawl.runs /\ crawl.runs > 0 =>
       /\ RunOver
       /\ ~crawl.raised =>
            /\ Len(FetchesOf(1)) = Len(crawl.pages_num)
            /\ Len(FetchesOf(2)) = Len(crawl.unique_news)
            /\ Len(FetchesOf(3)) = Len(crawl.unique_pdfs)

\* A run that fetched two pagination pages, two articles and three
\* documents has returned.
C34_Witness ==
  /\ RunOver
  /\ ~crawl.raised
  /\ Len(FetchesOf(1)) = 2
  /\ Len(FetchesOf(2)) = 2
  /\ Len(FetchesOf(3)) = 3

\* C38: in a run that returns, one rate-limit sleep precedes each
\* pagination-page fetch, each article fetch and each document download,
\* and none precedes the fetch of the base page: the sleeps are as many as
\* pagination pages, unique articles and unique documents together.
C38_RateLimit ==
  RunOver /\ ~crawl.raised =>
    /\ Len(crawl.sleeps) = Len(crawl.history) - 1
    /\ \A i \in 1..Len(crawl.sleeps) : crawl.sleeps[i] = crawl.history[i + 1].url
    /\ \A i \in 1..Len(crawl.sleeps) : crawl.sleeps[i] # BaseUrl
    /\ Len(crawl.sleeps) =
         Len(crawl.pages_num) + Len(crawl.unique_news) + Len(crawl.unique_pdfs)

\* A run with two pagination links to the same page, one article and three
\* documents has returned after six sleeps.
C38_Witness ==
  /\ RunOver
  /\ ~crawl.raised
  /\ crawl.pages_num = <<"p1", "p1">>
  /\ Len(crawl.unique_pdfs) >= 1
  /\ Len(crawl.sleeps) = 3 + Len(crawl.unique_pdfs)

\* C37: when a run is over, pdfs_downloaded of its result and
\* pdfs_downloaded of the result's stats snapshot both equal the number of
\* successful outcomes in the result's download_results, and neither
\* exceeds pdfs_found.
C37_Downloaded ==
  RunOver =>
    LET n == Len(Successes(LastResult.download_results))
    IN  /\ LastResult.pdfs_downloaded = n
        /\ LastResult.stats.pdfs_downloaded = n
        /\ LastResult.pdfs_downloaded <= LastResult.pdfs_found
        /\ LastResult.stats.pdfs_downloaded <= LastResult.pdfs_found

\* C35: the stats a run updates are that run's alone: when a run begins,
\* the counters are zero and the errors list is empty, and when it returns
\* its snapshot counts the downloads of that run only.
C35_OwnStats ==
  /\ crawl.pc = "base" => stats = NewStats
  /\ RunOver /\ ~crawl.raised =>
       LastResult.stats.pdfs_downloaded = Len(Successes(LastResult.download_results))

\* C36: a result that has been returned does not change: every field of
\* it, the counters and the errors list of its stats snapshot included, stays
\* as it was, whatever the crawler does next.
C36_ResultFrozen ==
  [][results # <<>> =>
       /\ \A i \in 1..Len(results) : results'[i] = results[i]
       /\ SnapshotErrors(stats') = SnapshotErrors(stats)]_allvars

\* The id has been handed back to a caller by create_task,
\* start_pdf_processing_task or start_crawl_operation.
HandedBack(id) == Task(id).kind # "none"

\* C39: every id handed back to a caller resolves, from the moment it is
\* returned until its record is evicted: get_task_status(id) finds the
\* task and never returns not-found.
C39_Resolvable ==
  \A id \in Ids :
    HandedBack(id) /\ id \notin evicted =>
      /\ get_task_status(id).found
      /\ get_task_status(id).task = Task(id)

\* C40: a sweep leaves active_tasks and every task object as they are, and
\* a record it removes from completed_tasks completed at least max_task_age
\* ago, unless completed_tasks held more than max_completed_tasks records
\* when the sweep began.
C40_SweepFrame ==
  [][outcome' = "swept" =>
       /\ active_tasks' = active_tasks
       /\ tasks' = tasks
       /\ \A id \in Completed \ SeqToSet(completed_tasks') :
            \/ now - CompletedUtc(id) >= max_task_age
            \/ Len(completed_tasks) > max_completed_tasks]_allvars

\* C33: while the service runs, a sweep of the periodic loop removes every
\* record of completed_tasks that completed more than max_task_age ago, so
\* that no record outlives the first periodic sweep after that age.
C33_AgedSwept ==
  [][PeriodicCleanup =>
       \A id \in Completed :
         now - CompletedUtc(id) > max_task_age
           => id \notin SeqToSet(completed_tasks')]_allvars

\* The stages of the two kinds of work: the awaited steps of
\* _process_pdf_background and the loops of crawl_simple.
PdfStages == {"pdf", "embed", "store"}
CrawlStages == {"base", "pages", "news", "download"}

\* C32: once a task is cancelled its work enters no further stage, whether
\* it is a document-processing job or a crawl run.
C32_NoNewStage ==
  [][\A id \in Ids :
       is_cancelled(id) =>
         /\ (Task(id).kind = "pdf" /\ tasks'[id].work \in PdfStages)
              => tasks'[id].work = Task(id).work
         /\ (Task(id).kind = "crawl" /\ Task(id).work = "crawling"
                /\ crawl.pc \in CrawlStages /\ crawl'.pc \in CrawlStages)
              => crawl'.pc = crawl.pc]_allvars

\* The half of C32 about document-processing jobs, on its own.
PdfStopsAtCheckpoint ==
  [][\A id \in Ids :
       (is_cancelled(id) /\ Task(id).kind = "pdf" /\ tasks'[id].work \in PdfStages)
         => tasks'[id].work = Task(id).work]_allvars

\* A cancelled document-processing job waiting in a stage.
PdfCancelledInStage ==
  \E id \in Ids : is_cancelled(id) /\ Task(id).kind = "pdf" /\ Task(id).work \in PdfStages

\* C31: no operation modifies completed_tasks while a sweep iterates it, so
\* that a migration and the sweep's pass over the store never overlap.
C31_Atomic ==
  [][sweep.pc = "iter" => completed_tasks' = completed_tasks]_allvars

\* No sweep ends in an exception and leaves its evictions undone.
SweepNeverRaises == outcome # "raised"
====
